---- MODULE Spec2Model ----
(***************************************************************************)
(* Flappy Dragon (src/src/main.rs): the game state, the three mode         *)
(* handlers dispatched by State::tick, the player's physics step and the   *)
(* obstacle's construction and collision test.                             *)
(*                                                                         *)
(* Numbers.  player.y and player.velocity are f32 in the source.  Every    *)
(* value they take is built from 25.0, 0.0, -FLAP_STRENGTH and repeated    *)
(* additions of GRAVITY = 0.2, so the model counts them in units of        *)
(* GRAVITY: Unit units make 1.0.  `as i32` is modelled as truncation       *)
(* toward zero of that fixed-point value (Trunc).  The arithmetic is       *)
(* exact: the rounding of f32 additions is not modelled.  For velocity     *)
(* this loses nothing the comparison with TERMINAL_VELOCITY sees: in f32   *)
(* the sums 0.0 + 10 * 0.2 (2.0000002) and -1.0 + 15 * 0.2 (2.0) stop      *)
(* growing after the same number of steps as the exact sums, and restart   *)
(* and flap keep velocity on those two sequences.  For y the f32 value     *)
(* differs from the exact one by accumulated rounding (below 0.001), which *)
(* can move a y that is exactly whole to the row above.                    *)
(* frame_time is counted in whole milliseconds, which f32 adds exactly.    *)
(* player.x, score and the obstacle fields are i32 in the source and stay  *)
(* far below 2^31 under the bounds.                                        *)
(***************************************************************************)
EXTENDS Integers, FiniteSets, Sequences, TLC

\* ------------------------------------------------------------------ bounds
\* Under Spec a Playing tick is taken only while player.x < MaxX (player.x
\* is unbounded in the source).  MaxX lets the player pass the first obstacle
\* at x = 80 and take one more step.
MaxX == 82

\* Under SpecObstacle the game is started next to an obstacle, for every
\* score from 0 to MaxHitScore, and a Playing tick is taken only while the
\* obstacle is at most NearObstacle columns ahead of the player.
MaxHitScore == 19
NearObstacle == 1

\* ctx.frame_time_ms values offered to a tick, in milliseconds: exactly the
\* frame duration (the boundary of the strict comparison) and a value of
\* more than two frame durations.
FrameTimes == {75, 160}

\* Values random.range(10, 40) is allowed to return in the model: the two
\* ends of the half-open range 10..39.
GapYs == {10, 39}

\* ctx.key: no key, or one of the keys the handlers distinguish; "A" stands
\* for every other key.
Keys == {"None", "Space", "P", "Q", "A"}

\* --------------------------------------------------------------- constants
Unit == 5
SCREEN_WIDTH == 80
SCREEN_HEIGHT == 50
FRAME_DURATION == 75
TERMINAL_VELOCITY == 2 * Unit
GRAVITY == Unit \div 5
FLAP_STRENGTH == 1 * Unit

\* ------------------------------------------------------------------- state
VARIABLES
    mode,        \* State.mode: "Menu", "Playing" or "End"
    player,      \* State.player: [x, y, velocity], y and velocity in units
    frame_time,  \* State.frame_time, milliseconds
    score,       \* State.score
    obstacle,    \* State.obstacle: [x, gap_y, size]
    quitting     \* ctx.quitting, read by the engine's main loop

vars == <<mode, player, frame_time, score, obstacle, quitting>>

\* ----------------------------------------------------------- pure helpers
Max(a, b) == IF a >= b THEN a ELSE b

\* `f as i32` for the fixed-point value f: truncation toward zero.
Trunc(f) == IF f >= 0 THEN f \div Unit ELSE -((-f) \div Unit)

\* Obstacle::new without the floor of 2 on the size.
ObstacleNew_no_floor(x, sc, gap) ==
    [x |-> x, gap_y |-> gap, size |-> 20 - sc]

\* Obstacle::new(x, score) with gap the value drawn by random.range(10, 40).
ObstacleNew(x, sc, gap) ==
    [x |-> x, gap_y |-> gap, size |-> Max(2, 20 - sc)]

\* hit_obstacle with the two comparisons made inclusive: the boundary rows
\* of the gap collide.
hit_obstacle_inclusive(o, p) ==
    LET half_size == o.size \div 2
    IN  /\ p.x = o.x
        /\ \/ Trunc(p.y) <= o.gap_y - half_size
           \/ Trunc(p.y) >= o.gap_y + half_size

\* Obstacle::hit_obstacle(&self, player)
hit_obstacle(o, p) ==
    LET half_size == o.size \div 2
        does_x_match == p.x = o.x
        player_above_gap == Trunc(p.y) < o.gap_y - half_size
        player_below_gap == Trunc(p.y) > o.gap_y + half_size
    IN  does_x_match /\ (player_above_gap \/ player_below_gap)

\* Obstacle::render(&mut self, ctx, player_x): the cells <<column, row>> set
\* to the wall glyph.  A Rust range a..b holds a and not b.
render(o, player_x) ==
    LET screen_x == o.x - player_x
        half_size == o.size \div 2
        top_half == 0 .. (o.gap_y - half_size) - 1
        bottom_half == (o.gap_y + half_size) .. SCREEN_HEIGHT - 1
    IN  {<<screen_x, y>> : y \in top_half \cup bottom_half}

\* Player::new(x, y)
PlayerNew(x, y) == [x |-> x, y |-> y * Unit, velocity |-> 0]

\* gravity_and_move moving two columns per step.
gravity_and_move_two_columns(p) ==
    LET v1 == IF p.velocity < TERMINAL_VELOCITY
              THEN p.velocity + GRAVITY ELSE p.velocity
        y1 == p.y + v1
    IN  [x |-> p.x + 2, y |-> IF y1 < 0 THEN 0 ELSE y1, velocity |-> v1]

\* gravity_and_move adding the velocity to y before gravity is added to it.
gravity_and_move_move_first(p) ==
    LET y1 == p.y + p.velocity
        v1 == IF p.velocity < TERMINAL_VELOCITY
              THEN p.velocity + GRAVITY ELSE p.velocity
    IN  [x |-> p.x + 1, y |-> IF y1 < 0 THEN 0 ELSE y1, velocity |-> v1]

\* gravity_and_move without the clamp of y at the top of the screen.
gravity_and_move_no_clamp(p) ==
    LET v1 == IF p.velocity < TERMINAL_VELOCITY
              THEN p.velocity + GRAVITY ELSE p.velocity
    IN  [x |-> p.x + 1, y |-> p.y + v1, velocity |-> v1]

\* gravity_and_move still adding gravity at the terminal velocity.
gravity_and_move_overshoot(p) ==
    LET v1 == IF p.velocity <= TERMINAL_VELOCITY
              THEN p.velocity + GRAVITY ELSE p.velocity
        y1 == p.y + v1
    IN  [x |-> p.x + 1, y |-> IF y1 < 0 THEN 0 ELSE y1, velocity |-> v1]

\* Player::gravity_and_move, as a function of the player
gravity_and_move(p) ==
    LET v1 == IF p.velocity < TERMINAL_VELOCITY
              THEN p.velocity + GRAVITY ELSE p.velocity
        y1 == p.y + v1
        x1 == p.x + 1
        y2 == IF y1 < 0 THEN 0 ELSE y1
    IN  [x |-> x1, y |-> y2, velocity |-> v1]

\* Player::flap
flap(p) == [p EXCEPT !.velocity = -FLAP_STRENGTH]

\* -------------------------------------------------------------------- Init
\* State::new()
Init ==
    /\ mode = "Menu"
    /\ frame_time = 0
    /\ player = PlayerNew(5, 25)
    /\ \E g \in GapYs : obstacle = ObstacleNew(SCREEN_WIDTH, 0, g)
    /\ score = 0
    /\ quitting = FALSE

\* ----------------------------------------------------------------- actions
\* State::restart.  player.velocity is not assigned.
restart ==
    /\ player' = [player EXCEPT !.x = 5, !.y = 25 * Unit]
    /\ frame_time' = 0
    /\ mode' = "Playing"
    /\ \E g \in GapYs : obstacle' = ObstacleNew(SCREEN_WIDTH, 0, g)
    /\ score' = 0

\* main_menu starting the game on the flap key as well.
main_menu_space_starts(key) ==
    \/ /\ key \in {"P", "Space"}
       /\ restart
       /\ UNCHANGED quitting
    \/ /\ key = "Q"
       /\ quitting' = TRUE
       /\ UNCHANGED <<mode, player, frame_time, score, obstacle>>
    \/ /\ key \notin {"P", "Q", "Space"}
       /\ UNCHANGED vars

\* State::main_menu with ctx.key = key
main_menu(key) ==
    \/ /\ key = "P"
       /\ restart
       /\ UNCHANGED quitting
    \/ /\ key = "Q"
       /\ quitting' = TRUE
       /\ UNCHANGED <<mode, player, frame_time, score, obstacle>>
    \/ /\ key \notin {"P", "Q"}
       /\ UNCHANGED vars

\* dead starting a new game on the flap key as well.
dead_space_restarts(key) ==
    \/ /\ key \in {"P", "Space"}
       /\ restart
       /\ UNCHANGED quitting
    \/ /\ key = "Q"
       /\ quitting' = TRUE
       /\ UNCHANGED <<mode, player, frame_time, score, obstacle>>
    \/ /\ key \notin {"P", "Q", "Space"}
       /\ UNCHANGED vars

\* State::dead with ctx.key = key
dead(key) ==
    \/ /\ key = "P"
       /\ restart
       /\ UNCHANGED quitting
    \/ /\ key = "Q"
       /\ quitting' = TRUE
       /\ UNCHANGED <<mode, player, frame_time, score, obstacle>>
    \/ /\ key \notin {"P", "Q"}
       /\ UNCHANGED vars

\* The accumulator after `self.frame_time += ctx.frame_time_ms`
Accumulated(ms) == frame_time + ms

\* The physics step running as soon as the frame duration is reached.
PhysicsDue_inclusive(ms) == Accumulated(ms) >= FRAME_DURATION

\* Whether this tick runs the physics step
PhysicsDue(ms) == Accumulated(ms) > FRAME_DURATION

\* The player after the physics step (if due) and before the flap
AfterPhysics(ms) ==
    IF PhysicsDue(ms) THEN gravity_and_move(player) ELSE player

\* The flap applied only in a tick that runs the physics step.
AtRender_flap_when_due(key, ms) ==
    IF key = "Space" /\ PhysicsDue(ms)
    THEN flap(AfterPhysics(ms)) ELSE AfterPhysics(ms)

\* The player at the render point of a Playing tick: after physics and flap
AtRender(key, ms) ==
    IF key = "Space" THEN flap(AfterPhysics(ms)) ELSE AfterPhysics(ms)

\* The obstacle counted as passed when the player stands on its column.
Passed_on_column(p) == p.x >= obstacle.x

\* The player has advanced past the obstacle
Passed(p) == p.x > obstacle.x

\* The End-transition condition without the fall off the bottom.
GameOver_no_fall(p, o) == hit_obstacle(o, p)

\* The End-transition condition ending the game one row early.
GameOver_early(p, o) == Trunc(p.y) >= SCREEN_HEIGHT \/ hit_obstacle(o, p)

\* The End-transition condition of play, for player p and obstacle o
GameOver(p, o) == Trunc(p.y) > SCREEN_HEIGHT \/ hit_obstacle(o, p)

\* The replacement obstacle placed a screen width after the passed one.
Replacement_from_obstacle(p, gap) ==
    ObstacleNew(obstacle.x + SCREEN_WIDTH, score + 1, gap)

\* The replacement obstacle sized from the score before its increment.
Replacement_stale_score(p, gap) == ObstacleNew(p.x + SCREEN_WIDTH, score, gap)

\* The obstacle that replaces the passed one: Obstacle::new(player.x +
\* SCREEN_WIDTH, score) called after `self.score += 1`
Replacement(p, gap) == ObstacleNew(p.x + SCREEN_WIDTH, score + 1, gap)

\* State::play with ctx.key = key and ctx.frame_time_ms = ms
play(key, ms) ==
    LET p == AtRender(key, ms) IN
    /\ frame_time' = IF PhysicsDue(ms) THEN 0 ELSE Accumulated(ms)
    /\ player' = p
    /\ IF Passed(p)
       THEN /\ score' = score + 1
            /\ \E g \in GapYs : obstacle' = Replacement(p, g)
       ELSE UNCHANGED <<score, obstacle>>
    /\ mode' = IF GameOver(p, obstacle') THEN "End" ELSE mode
    /\ UNCHANGED quitting

\* tick handling key Q itself, in every mode.
tick_q_quits_in_every_mode(key, ms) ==
    /\ ~quitting
    /\ IF key = "Q"
       THEN /\ quitting' = TRUE
            /\ UNCHANGED <<mode, player, frame_time, score, obstacle>>
       ELSE \/ mode = "Menu" /\ main_menu(key)
            \/ mode = "End" /\ dead(key)
            \/ mode = "Playing" /\ play(key, ms)

\* GameState::tick with the context's key and elapsed milliseconds.  The
\* engine's main loop stops calling tick once ctx.quitting is set.
tick(key, ms) ==
    /\ ~quitting
    /\ \/ mode = "Menu" /\ main_menu(key)
       \/ mode = "End" /\ dead(key)
       \/ mode = "Playing" /\ play(key, ms)

Next ==
    \E key \in Keys, ms \in FrameTimes :
        /\ mode = "Playing" => player.x < MaxX
        /\ tick(key, ms)

Spec == Init /\ [][Next]_vars

\* ------------------------------------------------- the game at an obstacle
\* Rows and sub-row fractions of player.y, velocities and gap centres the
\* game is started with under SpecObstacle.
HitRows == 0 .. SCREEN_HEIGHT
HitFractions == {0, Unit - 1}
HitVelocities == {-FLAP_STRENGTH, 0}
HitGapYs == {10, 24, 39}

\* The state of State::new(), or a Playing state one column before the
\* obstacle of a game whose score is sc: the obstacle stands at
\* 80 + 81 * sc, where play put it, with the size Obstacle::new gave it.
InitObstacle ==
    \/ Init
    \/ /\ mode = "Playing"
       /\ frame_time = 0
       /\ quitting = FALSE
       /\ \E sc \in 0 .. MaxHitScore, g \in HitGapYs :
              /\ score = sc
              /\ obstacle = ObstacleNew(SCREEN_WIDTH + (SCREEN_WIDTH + 1) * sc, sc, g)
       /\ \E r \in HitRows, f \in HitFractions, v \in HitVelocities :
              \* velocity 0 is reached 2.0 above the row of the last flap
              /\ v = 0 => r + 2 <= SCREEN_HEIGHT
              /\ player = [x |-> obstacle.x - 1, y |-> r * Unit + f, velocity |-> v]

NextObstacle ==
    \E key \in Keys, ms \in FrameTimes :
        /\ mode = "Playing" => obstacle.x - player.x <= NearObstacle
        /\ tick(key, ms)

SpecObstacle == InitObstacle /\ [][NextObstacle]_vars

\* ------------------------------------------------------- the unflapped fall
\* The velocities a lost game leaves behind: restart does not assign
\* player.velocity, and a game can end with any velocity from -1.0 (a flap in
\* the last tick) to the terminal 2.0.
LeftoverVelocities == -FLAP_STRENGTH .. TERMINAL_VELOCITY

\* The state of State::new(), or the state right after a restart from End
InitFall ==
    \/ Init
    \/ /\ mode = "Playing"
       /\ frame_time = 0
       /\ score = 0
       /\ quitting = FALSE
       /\ \E g \in GapYs : obstacle = ObstacleNew(SCREEN_WIDTH, 0, g)
       /\ \E v \in LeftoverVelocities :
              player = [x |-> 5, y |-> 25 * Unit, velocity |-> v]

\* A tick in which Space is not pressed
NextFall ==
    \E key \in Keys \ {"Space"}, ms \in FrameTimes : tick(key, ms)

\* A Playing tick in which Space is not pressed
FallTick == mode = "Playing" /\ NextFall

\* The engine's main loop calls tick for every frame and every frame adds
\* its elapsed time to the accumulator, so Playing ticks keep occurring.
SpecFall == InitFall /\ [][NextFall]_vars /\ WF_vars(FallTick)

\* ================================================================== claims
\* The screen row of a player, and the first and last row of an obstacle's
\* gap as the claims state them.
Row(p) == Trunc(p.y)
GapTop(o) == o.gap_y - o.size \div 2
GapBottom(o) == o.gap_y + o.size \div 2
InGap(o, p) == GapTop(o) <= Row(p) /\ Row(p) <= GapBottom(o)

\* A tick with key P, with any elapsed time
PTick == \E ms \in FrameTimes : tick("P", ms)

\* The End-transition condition on the current state
EndCondition ==
    Row(player) > SCREEN_HEIGHT \/ hit_obstacle(obstacle, player)

\* ---------------------------------------------------------------------- C1
\* C1: every call of restart, from Menu or from End, leaves player.x = 5,
\* player.y = 25.0, player.velocity = 0.0, score = 0, frame_time = 0.0,
\* mode = Playing and an obstacle at world-x 80 with size 20.
C1_RestartResetsEverything ==
    [][(mode \in {"Menu", "End"} /\ PTick) =>
         /\ player' = [x |-> 5, y |-> 25 * Unit, velocity |-> 0]
         /\ score' = 0
         /\ frame_time' = 0
         /\ mode' = "Playing"
         /\ obstacle'.x = SCREEN_WIDTH
         /\ obstacle'.size = 20]_vars

\* ---------------------------------------------------------------------- C2
\* C2: the mode changes only from Menu to Playing and from End to Playing on
\* a tick with key P, and from Playing to End on a tick at whose end the
\* player's row is greater than 50 or hit_obstacle is true.  No step moves
\* the mode to Menu; a Menu or End tick with another key keeps the mode; a
\* Playing tick at whose end neither exit condition holds keeps Playing.
C2_ModeTransitions ==
    [][/\ mode' # mode =>
            \/ mode = "Menu" /\ mode' = "Playing" /\ PTick
            \/ mode = "End" /\ mode' = "Playing" /\ PTick
            \/ mode = "Playing" /\ mode' = "End" /\ EndCondition'
       /\ mode' = "Menu" => mode = "Menu"
       /\ \A key \in Keys \ {"P"}, ms \in FrameTimes :
            (mode # "Playing" /\ tick(key, ms)) => mode' = mode
       /\ (mode = "Playing" /\ ~EndCondition') => mode' = "Playing"]_vars

\* A game that ended on the obstacle, not by falling
C2_Witness ==
    /\ mode = "End"
    /\ hit_obstacle(obstacle, player)
    /\ Row(player) <= SCREEN_HEIGHT

\* ---------------------------------------------------------------------- C3
\* C3: player.x advances by at most 1 per Playing tick, the player gets past
\* the obstacle's x only from a state in which player.x equals it, and the
\* score increases (by 1) only in a Playing tick that starts with player.x
\* equal to the obstacle's x and the player's row inside
\* [gap_y - size/2, gap_y + size/2], the collision test having been false.
\* While Playing, the player is never past the obstacle, and stands on the
\* obstacle's x only inside the gap.
C3_ScoreOnlyThroughGap ==
    /\ [](mode = "Playing" =>
            /\ player.x <= obstacle.x
            /\ player.x = obstacle.x => InGap(obstacle, player))
    /\ [][/\ mode = "Playing" => player'.x \in {player.x, player.x + 1}
          /\ (mode = "Playing" /\ player'.x > obstacle.x) =>
                player.x = obstacle.x
          /\ score' > score =>
                /\ score' = score + 1
                /\ mode = "Playing"
                /\ player.x = obstacle.x
                /\ InGap(obstacle, player)
                /\ ~hit_obstacle(obstacle, player)]_vars

\* The first obstacle has been passed
C3_Witness == score = 1 /\ player.x = SCREEN_WIDTH + 1

\* ---------------------------------------------------------------------- C4
\* C4: hit_obstacle is true if and only if player.x = obstacle.x and the
\* player's row is outside the closed interval
\* [gap_y - size/2, gap_y + size/2]; on the two boundary rows it is false,
\* so a player still Playing on the obstacle's x is inside that interval.
C4_HitIffOutsideGap ==
    /\ hit_obstacle(obstacle, player) <=>
          (player.x = obstacle.x /\ ~InGap(obstacle, player))
    /\ Row(player) \in {GapTop(obstacle), GapBottom(obstacle)} =>
          ~hit_obstacle(obstacle, player)
    /\ (mode = "Playing" /\ player.x = obstacle.x) => InGap(obstacle, player)

\* The player has stepped onto the last row of the gap of an obstacle of odd
\* size and is still Playing
C4_Witness ==
    /\ mode = "Playing"
    /\ player.x = obstacle.x
    /\ obstacle.size = 3
    /\ Row(player) = GapBottom(obstacle)

\* ---------------------------------------------------------------------- C5
\* A step that runs the physics step: a Playing tick that advances player.x
PhysicsStep == mode = "Playing" /\ player'.x = player.x + 1

\* C5 (as amended): in every physics step started with velocity < 2.0, y
\* increases by the post-step velocity, pre-step velocity + 0.2, and is then
\* clamped at 0.
C5_YAdvancesByNewVelocity ==
    [][(PhysicsStep /\ player.velocity < TERMINAL_VELOCITY) =>
         player'.y = Max(0, player.y + (player.velocity + GRAVITY))]_vars

\* C5 (as stated): in every physics step started with velocity < 2.0, y
\* increases by the pre-step velocity (clamped at 0).
C5_YAdvancesByOldVelocity ==
    [][(PhysicsStep /\ player.velocity < TERMINAL_VELOCITY) =>
         player'.y = Max(0, player.y + player.velocity)]_vars

\* The first physics step of a game started from Menu has run
C5_Witness ==
    /\ mode = "Playing"
    /\ player.x = 6
    /\ player.y = 25 * Unit + GRAVITY

\* ---------------------------------------------------------------------- C6
\* C6: in every reachable state the live obstacle's size is
\* max(2, 20 - score) for the current score, so it is never below 2, and
\* a step that raises the score never raises the size.
C6_SizeFollowsScore ==
    /\ [](/\ obstacle.size = Max(2, 20 - score)
          /\ obstacle.size >= 2)
    /\ [][score' > score => obstacle'.size <= obstacle.size]_vars

\* An obstacle made for a score above 18, where the floor of 2 decides
C6_Witness ==
    /\ score > 18
    /\ obstacle.size = 2
    /\ obstacle.x = player.x + SCREEN_WIDTH

\* ---------------------------------------------------------------------- C7
\* C7: in a Playing tick at whose render point player.x is greater than
\* obstacle.x, the score increases by exactly 1 and the obstacle is replaced
\* by one at player.x + 80 with size max(2, 20 - new score) and a gap centre
\* in 10..39; in any other Playing tick score and obstacle are unchanged.
\* The score rises by at most 1 per tick.
C7_ScoreAndObstacleOnPass ==
    [][mode = "Playing" =>
         /\ player'.x > obstacle.x =>
               /\ score' = score + 1
               /\ obstacle'.x = player'.x + SCREEN_WIDTH
               /\ obstacle'.size = Max(2, 20 - score')
               /\ obstacle'.gap_y \in 10 .. 39
         /\ ~(player'.x > obstacle.x) => UNCHANGED <<score, obstacle>>
         /\ score' <= score + 1]_vars

\* The obstacle of score 6 has just been passed
C7_Witness ==
    /\ score = 7
    /\ obstacle = [x |-> player.x + SCREEN_WIDTH, gap_y |-> obstacle.gap_y, size |-> 13]

\* ---------------------------------------------------------------------- C8
\* C8: a Playing tick runs the physics step iff frame_time plus the elapsed
\* milliseconds is strictly greater than 75; then exactly one step runs,
\* player.x advances by 1 and frame_time becomes 0.  Otherwise frame_time
\* becomes the sum and player.x and player.y are unchanged.  frame_time is at
\* most 75 at the end of every tick.
C8_PhysicsCadence ==
    /\ [](frame_time <= FRAME_DURATION)
    /\ [][\A ms \in FrameTimes :
            (mode = "Playing" /\ \E key \in Keys : tick(key, ms)) =>
               IF frame_time + ms > FRAME_DURATION
               THEN /\ frame_time' = 0
                    /\ player'.x = player.x + 1
                    /\ player'.y = gravity_and_move(player).y
               ELSE /\ frame_time' = frame_time + ms
                    /\ player'.x = player.x
                    /\ player'.y = player.y]_vars

\* After one physics step, a tick has accumulated exactly the frame duration
\* without running a step
C8_Witness ==
    /\ mode = "Playing"
    /\ frame_time = FRAME_DURATION
    /\ player.x = 6

\* ---------------------------------------------------------------------- C9
\* C9: a Playing tick that ends with the player's row greater than 50 sets
\* the mode to End in that tick; while the mode stays End the score does not
\* change; and whenever the mode is Playing the player's row is at most 50.
C9_FallEndsGame ==
    /\ [](mode = "Playing" => Row(player) <= SCREEN_HEIGHT)
    /\ [][/\ (mode = "Playing" /\ Row(player)' > SCREEN_HEIGHT) =>
                mode' = "End"
          /\ (mode = "End" /\ mode' = "End") => score' = score]_vars

\* The player fell off the bottom after passing the first obstacle
C9_Witness ==
    /\ mode = "End"
    /\ Row(player) > SCREEN_HEIGHT
    /\ score = 1

\* --------------------------------------------------------------------- C10
\* C10: from Menu, a tick with key P moves to Playing with player.x = 5,
\* player.y = 25.0, player.velocity = 0.0, score = 0, frame_time = 0.0 and
\* an obstacle at world-x 80 of size 20; a Menu tick with no key or a key
\* other than P and Q leaves the mode Menu.
C10_MenuStartsGame ==
    [][mode = "Menu" =>
         /\ PTick =>
               /\ mode' = "Playing"
               /\ player' = [x |-> 5, y |-> 25 * Unit, velocity |-> 0]
               /\ score' = 0
               /\ frame_time' = 0
               /\ obstacle'.x = SCREEN_WIDTH
               /\ obstacle'.size = 20
         /\ \A key \in Keys \ {"P", "Q"}, ms \in FrameTimes :
               tick(key, ms) => mode' = "Menu"]_vars

\* The game has just been started
C10_Witness ==
    /\ mode = "Playing"
    /\ player = [x |-> 5, y |-> 25 * Unit, velocity |-> 0]
    /\ score = 0
    /\ frame_time = 0
    /\ obstacle.x = SCREEN_WIDTH

\* --------------------------------------------------------------------- C11
\* C11: player.y is never negative in any reachable state.
C11_YNeverNegative == player.y >= 0

\* The player is at the top of the screen, still moving upward
C11_Witness ==
    /\ mode = "Playing"
    /\ player.y = 0
    /\ player.velocity < 0
    /\ player.x > 5

\* --------------------------------------------------------------------- C12
\* C12: at the end of every Playing tick with the Space key velocity is
\* -1.0, whether or not the tick ran the physics step, and the position is
\* the one the physics step (if any) produced; a tick with Space in Menu or
\* End does not change velocity.
C12_FlapSetsVelocity ==
    [][\A ms \in FrameTimes :
         tick("Space", ms) =>
            IF mode = "Playing"
            THEN /\ player'.velocity = -FLAP_STRENGTH
                 /\ player'.x = AfterPhysics(ms).x
                 /\ player'.y = AfterPhysics(ms).y
            ELSE player'.velocity = player.velocity]_vars

\* A flap in a tick that ran no physics step, before any physics step of the
\* game
C12_Witness ==
    /\ mode = "Playing"
    /\ player.x = 5
    /\ frame_time = FRAME_DURATION
    /\ player.velocity = -FLAP_STRENGTH

\* --------------------------------------------------------------------- C13
\* C13: the quit flag is set only by a tick with key Q while the mode is
\* Menu or End, never by a step taken in Playing, and the step that sets it
\* leaves mode, player, obstacle, score and frame_time unchanged.
C13_QuitOnlyByQ ==
    [][/\ quitting' # quitting =>
            /\ quitting'
            /\ mode \in {"Menu", "End"}
            /\ \E ms \in FrameTimes : tick("Q", ms)
            /\ UNCHANGED <<mode, player, obstacle, score, frame_time>>
       /\ mode = "Playing" => quitting' = quitting]_vars

\* The game was quit from the menu
C13_Witness == quitting /\ mode = "Menu"

\* --------------------------------------------------------------------- C14
\* C14: the physics step adds exactly 0.2 to velocity when velocity < 2.0
\* and leaves it unchanged otherwise (a flap in the same tick then sets it to
\* -1.0), so it never lowers velocity; velocity stays within
\* [-1.0, 2.0 + 0.2) and, counted in exact multiples of 0.2, never exceeds
\* the terminal value 2.0.
C14_VelocityRange ==
    /\ [](/\ -FLAP_STRENGTH <= player.velocity
          /\ player.velocity < TERMINAL_VELOCITY + GRAVITY
          /\ player.velocity <= TERMINAL_VELOCITY)
    /\ [][PhysicsStep =>
            LET stepped == IF player.velocity < TERMINAL_VELOCITY
                           THEN player.velocity + GRAVITY
                           ELSE player.velocity
            IN  /\ stepped >= player.velocity
                /\ player'.velocity \in {stepped, -FLAP_STRENGTH}
                /\ (\E ms \in FrameTimes : tick("None", ms)) =>
                      player'.velocity = stepped]_vars

\* A free fall from Menu: one more physics step after the terminal velocity
\* was reached
C14_Witness ==
    /\ mode = "Playing"
    /\ player.velocity = TERMINAL_VELOCITY
    /\ player.x = 16
    /\ player.y = 38 * Unit

\* --------------------------------------------------------------------- C15
\* C15: a tick in Menu or End with no key or a key other than P leaves
\* player, obstacle, score, frame_time and mode unchanged; the score, the
\* player's position and the obstacle are put back (score lowered, player.x
\* or obstacle.x lowered, player.y changed outside a Playing tick) only by a
\* restart: a tick with key P in Menu or End.
C15_OnlyRestartResets ==
    [][/\ \A key \in Keys \ {"P"}, ms \in FrameTimes :
            (mode \in {"Menu", "End"} /\ tick(key, ms)) =>
               UNCHANGED <<mode, player, obstacle, score, frame_time>>
       /\ (\/ score' < score
           \/ player'.x < player.x
           \/ obstacle'.x < obstacle.x
           \/ mode # "Playing" /\ player'.y # player.y) =>
             (mode \in {"Menu", "End"} /\ PTick)]_vars

\* The game was quit from End, the state of the lost game still in place
C15_Witness ==
    /\ quitting
    /\ mode = "End"
    /\ player.x > 5
    /\ player.velocity # 0

\* --------------------------------------------------------------------- C16
\* The rows in which render draws the wall of the live obstacle
WallRows == {c[2] : c \in render(obstacle, player.x)}

\* The rows of the screen on which hit_obstacle reports a collision for a
\* player at the obstacle's x
CollisionRows ==
    {r \in 0 .. SCREEN_HEIGHT - 1 :
        hit_obstacle(obstacle, [x |-> obstacle.x, y |-> r * Unit, velocity |-> 0])}

\* C16: while Playing, render draws the wall in exactly the rows
\* 0 <= row < gap_y - size/2 and gap_y + size/2 < row < 50, which are
\* exactly the rows on which hit_obstacle reports a collision for an
\* on-screen player at the obstacle's x.
C16_WallRowsAreCollisionRows ==
    mode = "Playing" =>
        /\ WallRows = {r \in 0 .. SCREEN_HEIGHT - 1 :
                          r < GapTop(obstacle) \/ GapBottom(obstacle) < r}
        /\ WallRows = CollisionRows

\* --------------------------------------------------------------------- C17
\* C17: at the end of every tick, in every mode, obstacle.x = 80 + 81 * score
\* and score = player.x div 81, so player.x <= obstacle.x <= player.x + 80.
C17_ObstacleAhead ==
    /\ obstacle.x = SCREEN_WIDTH + (SCREEN_WIDTH + 1) * score
    /\ score = player.x \div (SCREEN_WIDTH + 1)
    /\ player.x <= obstacle.x
    /\ obstacle.x <= player.x + SCREEN_WIDTH

\* The first obstacle has been passed and its replacement placed
C17_Witness ==
    /\ score = 1
    /\ obstacle.x = 2 * SCREEN_WIDTH + 1
    /\ player.x = obstacle.x - SCREEN_WIDTH

\* --------------------------------------------------------------------- C18
\* The number of physics steps after which a player that does not flap has a
\* row greater than 50
RECURSIVE Remaining(_)
Remaining(p) ==
    IF Row(p) > SCREEN_HEIGHT THEN 0 ELSE 1 + Remaining(gravity_and_move(p))

\* C18: after a restart, with Space never pressed and physics steps
\* occurring, the mode reaches End after at most 24 physics steps, exactly
\* 18 for the game started from Menu: every physics step brings the fall one
\* step nearer, the game ends exactly when the player's row exceeds 50, by
\* then player.x is at most 5 + 24, before the obstacle at x = 80, and the
\* score is still 0.
C18_FallEndsGame ==
    /\ [](mode = "Menu" => Remaining(player) = 18)
    /\ [](mode = "Playing" =>
            /\ Remaining(player) >= 1
            /\ (player.x - 5) + Remaining(player) <= 24
            /\ player.x < obstacle.x
            /\ score = 0)
    /\ [](mode = "End" =>
            /\ Row(player) > SCREEN_HEIGHT
            /\ player.x - 5 <= 24
            /\ player.x < SCREEN_WIDTH
            /\ ~hit_obstacle(obstacle, player)
            /\ score = 0)
    /\ [][mode = "Playing" =>
            IF player'.x = player.x + 1
            THEN /\ Remaining(player') = Remaining(player) - 1
                 /\ mode' = "End" <=> Remaining(player') = 0
            ELSE mode' = "Playing" /\ player' = player]_vars
    /\ (mode = "Playing" ~> mode = "End")

\* The longest fall: the game ended 24 physics steps after the restart
C18_Witness ==
    /\ mode = "End"
    /\ player.x = 5 + 24
    /\ score = 0

====
